---- MODULE Spec2Model ----
(***************************************************************************)
(* The enclave call gateway of cosmwasm/packages/wasmi-runtime             *)
(* (src/exports.rs): ecall_init, ecall_handle, ecall_query,                *)
(* ecall_allocate, recover_buffer and ecall_health_check, run by host      *)
(* threads against the shared ECALL_ALLOCATE_STACK, the OOM flag and the   *)
(* safety buffer.                                                          *)
(***************************************************************************)
EXTENDS Integers, Sequences, FiniteSets, TLC

\* ------------------------------------------------------------------ bounds
NumThreads == 2
MaxGas == 2
MaxAddr == 3
MaxLen == 1

Threads == 1..NumThreads
\* Host-supplied gas: an odd and an even gas_limit, and a *used_gas that
\* starts at nothing or at MaxGas.
GasLimits == {MaxGas - 1, MaxGas}
GasValues == {0, MaxGas}
\* Heap addresses a Box can be placed at; NullPtr is EnclaveBuffer::default().
Addrs == 1..MaxAddr
NullPtr == 0
Handles == {NullPtr} \cup Addrs

\* ------------------------------------------------------------------ state
VARIABLES
    pc,                   \* position of each thread in its gateway call
    call,                 \* the gateway call each thread is running
    used_gas,             \* the host-owned u64 behind each call's used_gas
    rpc,                  \* position of each thread in allocate / recover
    op,                   \* the allocate / recover each thread is running
    ECALL_ALLOCATE_STACK, \* Vec<EnclaveBuffer> behind the SgxMutex
    lockHolder,           \* thread holding the SgxMutex, 0 when free
    poisoned,             \* the SgxMutex's poison flag
    heap,                 \* Box<Vec<u8>> at each address, or Free
    oom_happened,         \* the OOM guard's flag
    outstanding           \* handles returned by ecall_allocate, not yet recovered

vars == <<pc, call, used_gas, rpc, op, ECALL_ALLOCATE_STACK, lockHolder,
          poisoned, heap, oom_happened, outstanding>>

gatewayVars == <<pc, call, used_gas>>
registryVars == <<rpc, op, ECALL_ALLOCATE_STACK, lockHolder, poisoned, heap,
                  outstanding>>

\* ------------------------------------------------------------- data model
Kinds == {"init", "handle", "query"}
Regions == {"used_gas", "env", "msg", "contract", "sig_info"}

\* ValidationOrder with the sig_info check of ecall_init / ecall_handle
\* left out.
ValidationOrderSkipsSigInfo(kind) ==
    IF kind = "query"
    THEN <<"used_gas", "msg", "contract">>
    ELSE <<"used_gas", "env", "msg", "contract">>

\* The order in which an entry point validates its input regions.
ValidationOrder(kind) ==
    IF kind = "query"
    THEN <<"used_gas", "msg", "contract">>
    ELSE <<"used_gas", "env", "msg", "contract", "sig_info">>

\* The input regions of an entry point: ecall_query takes no env, no sig_info.
RegionsOf(kind) ==
    IF kind = "query" THEN {"used_gas", "msg", "contract"} ELSE Regions

\* Index of the first region of the order that fails validation, 0 if none.
FirstInvalid(kind, invalid) ==
    LET order == ValidationOrder(kind)
        bad == {i \in 1..Len(order) : order[i] \in invalid}
    IN IF bad = {} THEN 0 ELSE CHOOSE i \in bad : \A j \in bad : i <= j

\* EnclaveError values the gateway produces itself.
FailedFunctionCall == "FailedFunctionCall"
OutOfMemory == "OutOfMemory"
Panic == "Panic"
\* An error of the interpreter, passed through.
InterpreterErrors == {"ContractError"}

Success(kind) == [type |-> kind, tag |-> "Success", err |-> "none"]
Failure(kind, e) == [type |-> kind, tag |-> "Failure", err |-> e]
NoResult == [type |-> "none", tag |-> "none", err |-> "none"]

\* What crate::wasm::{init,handle,query} hand back: Ok(payload) or Err(e).
InterpreterResults == {[ok |-> TRUE, err |-> "none"]} \cup
                      {[ok |-> FALSE, err |-> e] : e \in InterpreterErrors}

\* result_{init,handle,query}_success_to_{..}result
ResultToTagged(kind, r) ==
    IF r.ok THEN Success(kind) ELSE Failure(kind, r.err)

\* The error register_oom_handler and restore_safety_buffer report.
GuardError == OutOfMemory

\* The penalty written to *used_gas after a captured fault.
GasPenalty(gas_limit) == gas_limit \div 2

\* ClassifyFault without the look at the flag.
ClassifyFaultAlwaysPanic(flag) == Panic

\* The fault path's classification by the flag read.
ClassifyFault(flag) == IF flag THEN OutOfMemory ELSE Panic

NoCall == [kind |-> "none", gas_limit |-> 0, gas0 |-> 0, invalid |-> {},
           armed |-> FALSE, validated |-> 0, invoked |-> FALSE,
           local_used_gas |-> 0, caught |-> "none", closure |-> NoResult,
           gasWrites |-> 0, restores |-> 0, restoreOk |-> FALSE,
           exhausted |-> FALSE, flagRead |-> "none", result |-> NoResult]

\* Byte strings the host passes to ecall_allocate: the empty one and one
\* of MaxLen bytes.
Bytes(n) == [i \in 1..n |-> i]
BytesSet == {Bytes(0), Bytes(MaxLen)}

\* What ecall_allocate (a handle) or recover_buffer (an Option) returned.
NoReturn == [tag |-> "none", ptr |-> NullPtr, bytes |-> <<>>]
ReturnHandle(p) == [tag |-> "handle", ptr |-> p, bytes |-> <<>>]
ReturnNone == [tag |-> "None", ptr |-> NullPtr, bytes |-> <<>>]
ReturnSome(b) == [tag |-> "Some", ptr |-> NullPtr, bytes |-> b]
Unwinding == [tag |-> "panic", ptr |-> NullPtr, bytes |-> <<>>]

\* The allocate / recover call a thread runs, or the last one it ran.
\*   allocate: buf, bufValid are the arguments, ptr the Box made for the copy;
\*   recover: ptr is the argument; after says what this thread's previous
\*   call did with the same handle ("issue": ecall_allocate returned it,
\*   "recover": recover_buffer consumed it), buf the bytes it then holds, and
\*   index the position the search found it at (-1 before and for None).
NoOp == [name |-> "none", buf |-> <<>>, bufValid |-> TRUE, ptr |-> NullPtr,
         after |-> "other", armed |-> FALSE, restores |-> 0,
         caught |-> "none", index |-> -1, ret |-> NoReturn]

\* A heap cell: the Box<Vec<u8>> placed there, or nothing.
Free == [live |-> FALSE, bytes |-> <<>>]
Boxed(b) == [live |-> TRUE, bytes |-> b]

Init ==
    /\ pc = [t \in Threads |-> "idle"]
    /\ call = [t \in Threads |-> NoCall]
    /\ used_gas = [t \in Threads |-> 0]
    /\ rpc = [t \in Threads |-> "idle"]
    /\ op = [t \in Threads |-> NoOp]
    /\ ECALL_ALLOCATE_STACK = <<>>
    /\ lockHolder = 0
    /\ poisoned = FALSE
    /\ heap = [a \in Addrs |-> Free]
    /\ oom_happened = FALSE
    /\ outstanding = {}

\* ------------------------------------------------------------ OOM guard
\* oom_handler::register_oom_handler and restore_safety_buffer reserve and
\* replenish the safety margin: Ok(()) when the margin could be allocated,
\* Err(GuardError) when it could not. Neither touches the flag.
GuardOutcomes == BOOLEAN

\* An allocation failure inside a protected region: the flag is set and the
\* failed allocation panics.
AllocationFailure == oom_happened' = TRUE

\* ----------------------------------------- ecall_init / _handle / _query
\* Arm with the register error logged and the call carried on.
ArmIgnoresFailure(t, kind, gas_limit, gas0, invalid) ==
    /\ pc[t] = "idle"
    /\ rpc[t] = "idle"
    /\ used_gas' = [used_gas EXCEPT ![t] = gas0]
    /\ \E ok \in GuardOutcomes :
         /\ pc' = [pc EXCEPT ![t] = "validate"]
         /\ call' = [call EXCEPT ![t] =
                [NoCall EXCEPT !.kind = kind, !.gas_limit = gas_limit,
                               !.gas0 = gas0, !.invalid = invalid,
                               !.armed = ok]]
    /\ op' = [op EXCEPT ![t] = NoOp]
    /\ UNCHANGED <<rpc, ECALL_ALLOCATE_STACK, lockHolder, poisoned, heap,
                   outstanding, oom_happened>>

\* The host enters ecall_<kind> with its arguments:
\* if let Err(err) = oom_handler::register_oom_handler() { return Failure }
Arm(t, kind, gas_limit, gas0, invalid) ==
    /\ pc[t] = "idle"
    /\ rpc[t] = "idle"
    /\ used_gas' = [used_gas EXCEPT ![t] = gas0]
    /\ LET entered == [NoCall EXCEPT !.kind = kind, !.gas_limit = gas_limit,
                                     !.gas0 = gas0, !.invalid = invalid]
       IN \E ok \in GuardOutcomes :
            IF ok
            THEN /\ pc' = [pc EXCEPT ![t] = "validate"]
                 /\ call' = [call EXCEPT ![t] = [entered EXCEPT !.armed = TRUE]]
            ELSE /\ pc' = [pc EXCEPT ![t] = "done"]
                 /\ call' = [call EXCEPT ![t] = [entered EXCEPT !.result =
                                 Failure(kind, GuardError)]]
    /\ op' = [op EXCEPT ![t] = NoOp]
    /\ UNCHANGED <<rpc, ECALL_ALLOCATE_STACK, lockHolder, poisoned, heap,
                   outstanding, oom_happened>>

\* Validate with the penalty charged when a region fails validation.
ValidateChargesPenalty(t) ==
    /\ pc[t] = "validate"
    /\ LET bad == FirstInvalid(call[t].kind, call[t].invalid)
       IN IF bad = 0
          THEN /\ pc' = [pc EXCEPT ![t] = "execute"]
               /\ call' = [call EXCEPT ![t].validated =
                               Len(ValidationOrder(call[t].kind))]
               /\ UNCHANGED used_gas
          ELSE /\ pc' = [pc EXCEPT ![t] = "done"]
               /\ used_gas' = [used_gas EXCEPT ![t] =
                               GasPenalty(call[t].gas_limit)]
               /\ call' = [call EXCEPT ![t].validated = bad,
                                       ![t].result =
                               Failure(call[t].kind, FailedFunctionCall)]
    /\ UNCHANGED <<registryVars, oom_happened>>

\* The validate_mut_ptr / validate_const_ptr chain, in its fixed order.
Validate(t) ==
    /\ pc[t] = "validate"
    /\ LET bad == FirstInvalid(call[t].kind, call[t].invalid)
       IN IF bad = 0
          THEN /\ pc' = [pc EXCEPT ![t] = "execute"]
               /\ call' = [call EXCEPT ![t].validated =
                               Len(ValidationOrder(call[t].kind))]
          ELSE /\ pc' = [pc EXCEPT ![t] = "done"]
               /\ call' = [call EXCEPT ![t].validated = bad,
                                       ![t].result =
                               Failure(call[t].kind, FailedFunctionCall)]
    /\ UNCHANGED <<used_gas, registryVars, oom_happened>>

\* Inside catch_unwind: let mut local_used_gas = *used_gas; crate::wasm::<kind>(..)
InvokeInterpreter(t) ==
    /\ pc[t] = "execute"
    /\ pc' = [pc EXCEPT ![t] = "running"]
    /\ call' = [call EXCEPT ![t].invoked = TRUE,
                            ![t].local_used_gas = used_gas[t]]
    /\ UNCHANGED <<used_gas, registryVars, oom_happened>>

\* The interpreter returns r with the gas it counted; *used_gas = local_used_gas
\* and the result is converted.
InterpreterReturns(t, r, gas) ==
    /\ pc[t] = "running"
    /\ rpc[t] = "idle"
    /\ pc' = [pc EXCEPT ![t] = "disarm"]
    /\ used_gas' = [used_gas EXCEPT ![t] = gas]
    /\ call' = [call EXCEPT ![t].local_used_gas = gas,
                            ![t].gasWrites = @ + 1,
                            ![t].caught = "ok",
                            ![t].closure = ResultToTagged(call[t].kind, r)]
    /\ op' = [op EXCEPT ![t] = NoOp]
    /\ UNCHANGED <<rpc, ECALL_ALLOCATE_STACK, lockHolder, poisoned, heap,
                   outstanding, oom_happened>>

\* The closure unwinds and catch_unwind captures it: inside the interpreter
\* (wrote = FALSE) or in the conversion after *used_gas = local_used_gas
\* (wrote = TRUE); because an allocation failed (oom) or for another reason.
InterpreterPanics(t, oom, wrote, gas) ==
    /\ pc[t] = "running"
    /\ rpc[t] = "idle"
    /\ pc' = [pc EXCEPT ![t] = "disarm"]
    /\ used_gas' = [used_gas EXCEPT ![t] = IF wrote THEN gas ELSE @]
    /\ call' = [call EXCEPT ![t].local_used_gas = gas,
                            ![t].gasWrites = IF wrote THEN @ + 1 ELSE @,
                            ![t].exhausted = oom,
                            ![t].caught = "panic"]
    /\ IF oom THEN AllocationFailure
              ELSE UNCHANGED oom_happened
    /\ op' = [op EXCEPT ![t] = NoOp]
    /\ UNCHANGED <<rpc, ECALL_ALLOCATE_STACK, lockHolder, poisoned, heap,
                   outstanding>>

\* Disarm with the restore error logged and the call carried on.
DisarmIgnoresFailure(t) ==
    /\ pc[t] = "disarm"
    /\ \E ok \in GuardOutcomes :
         /\ pc' = [pc EXCEPT ![t] = "emit"]
         /\ call' = [call EXCEPT ![t].restores = @ + 1,
                                 ![t].restoreOk = ok]
    /\ UNCHANGED <<used_gas, registryVars, oom_happened>>

\* if let Err(err) = oom_handler::restore_safety_buffer() { return Failure }
Disarm(t) ==
    /\ pc[t] = "disarm"
    /\ \E ok \in GuardOutcomes :
        /\ IF ok
           THEN /\ pc' = [pc EXCEPT ![t] = "emit"]
                /\ call' = [call EXCEPT ![t].restores = @ + 1,
                                        ![t].restoreOk = TRUE]
           ELSE /\ pc' = [pc EXCEPT ![t] = "done"]
                /\ call' = [call EXCEPT ![t].restores = @ + 1,
                                        ![t].result =
                                Failure(call[t].kind, GuardError)]
    /\ UNCHANGED <<used_gas, registryVars, oom_happened>>

\* Emit with the captured panic raised again (panic::resume_unwind) instead
\* of being turned into a Failure.
EmitResumesUnwind(t) ==
    /\ pc[t] = "emit"
    /\ IF call[t].caught = "ok"
       THEN /\ pc' = [pc EXCEPT ![t] = "done"]
            /\ call' = [call EXCEPT ![t].result = call[t].closure]
       ELSE /\ pc' = [pc EXCEPT ![t] = "unwound"]
            /\ UNCHANGED call
    /\ UNCHANGED <<used_gas, registryVars, oom_happened>>

\* Emit with the penalty written on the normal path as well.
EmitChargesPenalty(t) ==
    /\ pc[t] = "emit"
    /\ pc' = [pc EXCEPT ![t] = "done"]
    /\ used_gas' = [used_gas EXCEPT ![t] = GasPenalty(call[t].gas_limit)]
    /\ IF call[t].caught = "ok"
       THEN /\ call' = [call EXCEPT ![t].gasWrites = @ + 1,
                                    ![t].result = call[t].closure]
            /\ UNCHANGED oom_happened
       ELSE /\ oom_happened' = FALSE
            /\ call' = [call EXCEPT ![t].gasWrites = @ + 1,
                                    ![t].flagRead = oom_happened,
                                    ![t].result =
                            Failure(call[t].kind, ClassifyFault(oom_happened))]
    /\ UNCHANGED registryVars

\* if let Ok(res) = result { res } else { *used_gas = gas_limit / 2; .. }
Emit(t) ==
    /\ pc[t] = "emit"
    /\ pc' = [pc EXCEPT ![t] = "done"]
    /\ IF call[t].caught = "ok"
       THEN /\ call' = [call EXCEPT ![t].result = call[t].closure]
            /\ UNCHANGED <<used_gas, oom_happened>>
       ELSE /\ used_gas' = [used_gas EXCEPT ![t] = GasPenalty(call[t].gas_limit)]
            /\ oom_happened' = FALSE
            /\ call' = [call EXCEPT ![t].gasWrites = @ + 1,
                                    ![t].flagRead = oom_happened,
                                    ![t].result =
                            Failure(call[t].kind, ClassifyFault(oom_happened))]
    /\ UNCHANGED registryVars

\* The entry point has returned call[t].result to the host.
EcallReturn(t) ==
    /\ pc[t] = "done"
    /\ pc' = [pc EXCEPT ![t] = "idle"]
    /\ call' = [call EXCEPT ![t] = NoCall]
    /\ used_gas' = [used_gas EXCEPT ![t] = 0]
    /\ UNCHANGED <<registryVars, oom_happened>>

\* HealthCheck that also reads and clears the OOM flag.
HealthCheckClearsFlag(t) ==
    /\ pc[t] = "idle"
    /\ rpc[t] = "idle"
    /\ pc' = [pc EXCEPT ![t] = "done"]
    /\ call' = [call EXCEPT ![t] = [NoCall EXCEPT !.kind = "health_check",
                                    !.result = Success("health_check")]]
    /\ oom_happened' = FALSE
    /\ UNCHANGED <<used_gas, registryVars>>

\* ecall_health_check: HealthCheckResult::Success
HealthCheck(t) ==
    /\ pc[t] = "idle"
    /\ rpc[t] = "idle"
    /\ pc' = [pc EXCEPT ![t] = "done"]
    /\ call' = [call EXCEPT ![t] = [NoCall EXCEPT !.kind = "health_check",
                                    !.result = Success("health_check")]]
    /\ UNCHANGED <<used_gas, registryVars, oom_happened>>

\* ------------------------------------------------------- ecall_allocate
\* The host (or an ocall of a running contract) enters ecall_allocate:
\* if let Err(_err) = oom_handler::register_oom_handler() { return default }
AllocateArm(t, buf, valid) ==
    /\ rpc[t] = "idle"
    /\ pc[t] \in {"idle", "running"}
    /\ LET entered == [NoOp EXCEPT !.name = "allocate", !.buf = buf,
                                   !.bufValid = valid]
       IN \E ok \in GuardOutcomes :
            IF ok
            THEN /\ rpc' = [rpc EXCEPT ![t] = "a_validate"]
                 /\ op' = [op EXCEPT ![t] = [entered EXCEPT !.armed = TRUE]]
            ELSE /\ rpc' = rpc
                 /\ op' = [op EXCEPT ![t] = [entered EXCEPT !.ret =
                               ReturnHandle(NullPtr)]]
    /\ UNCHANGED <<gatewayVars, ECALL_ALLOCATE_STACK, lockHolder, poisoned,
                   heap, outstanding, oom_happened>>

\* if let Err(_e) = validate_const_ptr(buffer, length) { return default }
AllocateValidate(t) ==
    /\ rpc[t] = "a_validate"
    /\ IF op[t].bufValid
       THEN /\ rpc' = [rpc EXCEPT ![t] = "a_copy"]
            /\ UNCHANGED op
       ELSE /\ rpc' = [rpc EXCEPT ![t] = "idle"]
            /\ op' = [op EXCEPT ![t].ret = ReturnHandle(NullPtr)]
    /\ UNCHANGED <<gatewayVars, ECALL_ALLOCATE_STACK, lockHolder, poisoned,
                   heap, outstanding, oom_happened>>

\* slice.to_vec(): a Vec holding a copy of each byte of the slice.
ToVec(slice) == [i \in 1..Len(slice) |-> slice[i]]

\* slice.to_vec(); Box::new(vector_copy); Box::into_raw(boxed_vector):
\* the copy is boxed at a free address.
AllocateCopy(t, a) ==
    /\ rpc[t] = "a_copy"
    /\ heap[a] = Free
    /\ heap' = [heap EXCEPT ![a] = Boxed(ToVec(op[t].buf))]
    /\ op' = [op EXCEPT ![t].ptr = a]
    /\ rpc' = [rpc EXCEPT ![t] = "a_lock"]
    /\ UNCHANGED <<gatewayVars, ECALL_ALLOCATE_STACK, lockHolder, poisoned,
                   outstanding, oom_happened>>

\* The copy or the Box cannot be allocated: the closure unwinds.
AllocateCopyFails(t) ==
    /\ rpc[t] = "a_copy"
    /\ AllocationFailure
    /\ op' = [op EXCEPT ![t].caught = "panic"]
    /\ rpc' = [rpc EXCEPT ![t] = "a_restore"]
    /\ UNCHANGED <<gatewayVars, ECALL_ALLOCATE_STACK, lockHolder, poisoned,
                   heap, outstanding>>

\* ECALL_ALLOCATE_STACK.lock().unwrap(): blocks while the mutex is held;
\* unwrap panics on a poisoned mutex and the guard is dropped with the error.
AllocateLock(t) ==
    /\ rpc[t] = "a_lock"
    /\ lockHolder = 0
    /\ IF poisoned
       THEN /\ op' = [op EXCEPT ![t].caught = "panic"]
            /\ rpc' = [rpc EXCEPT ![t] = "a_restore"]
            /\ UNCHANGED lockHolder
       ELSE /\ lockHolder' = t
            /\ rpc' = [rpc EXCEPT ![t] = "a_push"]
            /\ UNCHANGED op
    /\ UNCHANGED <<gatewayVars, ECALL_ALLOCATE_STACK, poisoned, heap,
                   outstanding, oom_happened>>

\* AllocatePush with the guard bound to a variable that lives until the
\* function returns, so the mutex stays locked after the statement.
AllocatePushKeepsGuard(t) ==
    /\ rpc[t] = "a_push"
    /\ lockHolder = t
    /\ ECALL_ALLOCATE_STACK' = Append(ECALL_ALLOCATE_STACK, op[t].ptr)
    /\ op' = [op EXCEPT ![t].caught = "ok"]
    /\ rpc' = [rpc EXCEPT ![t] = "a_restore"]
    /\ UNCHANGED <<gatewayVars, lockHolder, poisoned, heap, outstanding,
                   oom_happened>>

\* .push(enclave_buffer.unsafe_clone()); the guard is dropped at the end of
\* the statement.
AllocatePush(t) ==
    /\ rpc[t] = "a_push"
    /\ lockHolder = t
    /\ ECALL_ALLOCATE_STACK' = Append(ECALL_ALLOCATE_STACK, op[t].ptr)
    /\ lockHolder' = 0
    /\ op' = [op EXCEPT ![t].caught = "ok"]
    /\ rpc' = [rpc EXCEPT ![t] = "a_restore"]
    /\ UNCHANGED <<gatewayVars, poisoned, heap, outstanding, oom_happened>>

\* The Vec cannot grow: push unwinds with the guard alive, which poisons
\* the mutex as the guard is dropped.
AllocatePushFails(t) ==
    /\ rpc[t] = "a_push"
    /\ lockHolder = t
    /\ AllocationFailure
    /\ poisoned' = TRUE
    /\ lockHolder' = 0
    /\ op' = [op EXCEPT ![t].caught = "panic"]
    /\ rpc' = [rpc EXCEPT ![t] = "a_restore"]
    /\ UNCHANGED <<gatewayVars, ECALL_ALLOCATE_STACK, heap, outstanding>>

\* if let Err(_err) = oom_handler::restore_safety_buffer() { return default }
AllocateRestore(t) ==
    /\ rpc[t] = "a_restore"
    /\ \E ok \in GuardOutcomes :
         IF ok
         THEN /\ rpc' = [rpc EXCEPT ![t] = "a_result"]
              /\ op' = [op EXCEPT ![t].restores = @ + 1]
         ELSE /\ rpc' = [rpc EXCEPT ![t] = "idle"]
              /\ op' = [op EXCEPT ![t].restores = @ + 1,
                                  ![t].ret = ReturnHandle(NullPtr)]
    /\ UNCHANGED <<gatewayVars, ECALL_ALLOCATE_STACK, lockHolder, poisoned,
                   heap, outstanding, oom_happened>>

\* result.unwrap_or_else(|err| { get_then_clear_oom_happened(); default })
AllocateResult(t) ==
    /\ rpc[t] = "a_result"
    /\ rpc' = [rpc EXCEPT ![t] = "idle"]
    /\ IF op[t].caught = "ok"
       THEN /\ op' = [op EXCEPT ![t].ret = ReturnHandle(op[t].ptr)]
            /\ outstanding' = outstanding \cup {op[t].ptr}
            /\ UNCHANGED oom_happened
       ELSE /\ op' = [op EXCEPT ![t].ret = ReturnHandle(NullPtr)]
            /\ oom_happened' = FALSE
            /\ UNCHANGED outstanding
    /\ UNCHANGED <<gatewayVars, ECALL_ALLOCATE_STACK, lockHolder, poisoned,
                   heap>>

\* ------------------------------------------------------- recover_buffer
\* PositionFromEnd with the .rev() forgotten: the distance from the start.
PositionFromStart(stack, ptr) ==
    LET hits == {k \in 0..(Len(stack) - 1) : stack[k + 1] = ptr}
    IN IF hits = {} THEN -1 ELSE CHOOSE k \in hits : \A j \in hits : k <= j

\* alloc_stack.iter().rev().position(|buffer| buffer.ptr == ptr.ptr):
\* the distance from the end of the last entry equal to ptr, -1 for None.
PositionFromEnd(stack, ptr) ==
    LET hits == {k \in 0..(Len(stack) - 1) : stack[Len(stack) - k] = ptr}
    IN IF hits = {} THEN -1 ELSE CHOOSE k \in hits : \A j \in hits : k <= j

\* SwapRemove as Vec::pop: the last element is dropped whatever the index.
SwapRemoveDropsLast(stack, index) == SubSeq(stack, 1, Len(stack) - 1)

\* Vec::swap_remove at the 0-based index: the last element takes its place.
SwapRemove(stack, index) ==
    LET n == Len(stack)
    IN [i \in 1..(n - 1) |-> IF i = index + 1 THEN stack[n] ELSE stack[i]]

\* What the previous call of this thread did with the handle ptr.
AfterWhat(prev, ptr) ==
    IF ptr = NullPtr THEN "other"
    ELSE IF prev.name = "allocate" /\ prev.ret = ReturnHandle(ptr) THEN "issue"
    ELSE IF prev.name = "recover" /\ prev.ptr = ptr /\ prev.ret.tag = "Some"
         THEN "recover"
    ELSE "other"

\* Enclave code calls recover_buffer(ptr) on a handle the host gave it.
RecoverBegin(t, ptr) ==
    /\ rpc[t] = "idle"
    /\ pc[t] \in {"idle", "running"}
    /\ rpc' = [rpc EXCEPT ![t] = "r_lock"]
    /\ LET after == AfterWhat(op[t], ptr)
       IN op' = [op EXCEPT ![t] = [NoOp EXCEPT
                    !.name = "recover", !.ptr = ptr, !.after = after,
                    !.buf = IF after = "issue" THEN op[t].buf ELSE <<>>]]
    /\ UNCHANGED <<gatewayVars, ECALL_ALLOCATE_STACK, lockHolder, poisoned,
                   heap, outstanding, oom_happened>>

\* if ptr.ptr.is_null() { return None }
RecoverNull(t) ==
    /\ rpc[t] = "r_lock"
    /\ op[t].ptr = NullPtr
    /\ rpc' = [rpc EXCEPT ![t] = "idle"]
    /\ op' = [op EXCEPT ![t].ret = ReturnNone]
    /\ UNCHANGED <<gatewayVars, ECALL_ALLOCATE_STACK, lockHolder, poisoned,
                   heap, outstanding, oom_happened>>

\* let mut alloc_stack = ECALL_ALLOCATE_STACK.lock().unwrap(): blocks while
\* the mutex is held; on a poisoned mutex unwrap panics, which unwinds
\* recover_buffer and its caller: the closure of the running entry point
\* (catch_unwind captures it there) or the thread that called it directly.
RecoverLock(t) ==
    /\ rpc[t] = "r_lock"
    /\ op[t].ptr # NullPtr
    /\ lockHolder = 0
    /\ IF poisoned
       THEN /\ op' = [op EXCEPT ![t].ret = Unwinding]
            /\ rpc' = [rpc EXCEPT ![t] = "idle"]
            /\ IF pc[t] = "running"
               THEN /\ pc' = [pc EXCEPT ![t] = "disarm"]
                    /\ call' = [call EXCEPT ![t].caught = "panic"]
               ELSE UNCHANGED <<pc, call>>
            /\ UNCHANGED lockHolder
       ELSE /\ lockHolder' = t
            /\ rpc' = [rpc EXCEPT ![t] = "r_search"]
            /\ UNCHANGED <<op, pc, call>>
    /\ UNCHANGED <<used_gas, ECALL_ALLOCATE_STACK, poisoned, heap,
                   outstanding, oom_happened>>

\* The search, swap_remove and Box::from_raw under the guard, which is
\* dropped as the function returns.
RecoverSearch(t) ==
    /\ rpc[t] = "r_search"
    /\ lockHolder = t
    /\ LET index_from_the_end == PositionFromEnd(ECALL_ALLOCATE_STACK, op[t].ptr)
           index == Len(ECALL_ALLOCATE_STACK) - index_from_the_end - 1
       IN IF index_from_the_end >= 0
          THEN /\ ECALL_ALLOCATE_STACK' = SwapRemove(ECALL_ALLOCATE_STACK, index)
               /\ op' = [op EXCEPT ![t].index = index,
                                   ![t].ret = ReturnSome(heap[op[t].ptr].bytes)]
               /\ heap' = [heap EXCEPT ![op[t].ptr] = Free]
               /\ outstanding' = outstanding \ {op[t].ptr}
          ELSE /\ op' = [op EXCEPT ![t].ret = ReturnNone]
               /\ UNCHANGED <<ECALL_ALLOCATE_STACK, heap, outstanding>>
    /\ lockHolder' = 0
    /\ rpc' = [rpc EXCEPT ![t] = "idle"]
    /\ UNCHANGED <<gatewayVars, poisoned, oom_happened>>

\* ---------------------------------------------------------- specifications
\* The sets of input regions that fail validation: none, any one, or all.
InvalidSets(kind) ==
    {{}, RegionsOf(kind)} \cup {{r} : r \in RegionsOf(kind)}

\* What the interpreter may leave in local_used_gas: it never lowers it.
GasAfter(t) == {g \in GasValues : g >= call[t].local_used_gas}

\* Steps of the entry points other than the entry itself.
GatewayRun(t) ==
    \/ Validate(t)
    \/ InvokeInterpreter(t)
    \/ \E r \in InterpreterResults, gas \in GasAfter(t) :
         InterpreterReturns(t, r, gas)
    \/ \E oom \in BOOLEAN, wrote \in BOOLEAN, gas \in GasAfter(t) :
         InterpreterPanics(t, oom, wrote, gas)
    \/ Disarm(t)
    \/ Emit(t)
    \/ EcallReturn(t)
    \/ HealthCheck(t)

\* Steps of ecall_allocate and recover_buffer other than the entry itself.
RegistryRun(t) ==
    \/ AllocateValidate(t)
    \/ \E a \in Addrs : AllocateCopy(t, a)
    \/ AllocateCopyFails(t)
    \/ AllocateLock(t)
    \/ AllocatePush(t)
    \/ AllocatePushFails(t)
    \/ AllocateRestore(t)
    \/ AllocateResult(t)
    \/ RecoverNull(t)
    \/ RecoverLock(t)
    \/ RecoverSearch(t)

\* One host thread calls the entry points one after another, with every
\* combination of arguments.
Next ==
    \/ \E kind \in Kinds, gas_limit \in GasLimits, gas0 \in GasValues :
         \E invalid \in InvalidSets(kind) :
           Arm(1, kind, gas_limit, gas0, invalid)
    \/ GatewayRun(1)

Spec == Init /\ [][Next]_vars

\* One host thread calls the entry points, ecall_allocate and
\* recover_buffer (on any handle), the last two also from inside a running
\* contract.
NextHost ==
    \/ \E kind \in Kinds, invalid \in {{}, {"msg"}} :
         Arm(1, kind, MaxGas, 0, invalid)
    \/ GatewayRun(1)
    \/ \E valid \in BOOLEAN : AllocateArm(1, Bytes(MaxLen), valid)
    \/ \E ptr \in Handles : RecoverBegin(1, ptr)
    \/ RegistryRun(1)

SpecHost == Init /\ [][NextHost]_vars

\* One thread calls ecall_allocate with every argument and recover_buffer
\* on every handle, in every order.
NextSeq ==
    \/ \E buf \in BytesSet, valid \in BOOLEAN : AllocateArm(1, buf, valid)
    \/ \E ptr \in Handles : RecoverBegin(1, ptr)
    \/ RegistryRun(1)

SpecSeq == Init /\ [][NextSeq]_vars

\* The bytes thread t allocates: no two neighbouring threads the same.
ThreadBytes(t) == IF t % 2 = 1 THEN Bytes(0) ELSE Bytes(MaxLen)

\* Every thread runs allocate / recover cycles against the shared registry:
\* it recovers the handle its ecall_allocate has just returned.
NextRegistry ==
    \E t \in Threads :
        \/ AllocateArm(t, ThreadBytes(t), TRUE)
        \/ (op[t].name = "allocate" /\ RecoverBegin(t, op[t].ret.ptr))
        \/ RegistryRun(t)

SpecRegistry == Init /\ [][NextRegistry]_vars

\* ------------------------------------------------------------ properties
Range(seq) == {seq[i] : i \in 1..Len(seq)}

\* Thread t is at the return of an ecall_init / _handle / _query call.
Returned(t) == pc[t] = "done" /\ call[t].kind \in Kinds

\* Thread t has returned from the allocate / recover call in op[t].
Completed(t, name) == rpc[t] = "idle" /\ op[t].name = name

GatewayPositions ==
    {"idle", "validate", "execute", "running", "disarm", "emit", "done"}

\* The tagged results an entry point of this kind can hand to the host.
TaggedResults(kind) ==
    {Success(kind)} \cup
    {Failure(kind, e) : e \in {FailedFunctionCall, OutOfMemory, Panic}
                              \cup InterpreterErrors}

\* C1: every ecall_init / _handle / _query call ends with one well-formed
\* tagged result; a panic of the interpreter step is captured inside the
\* entry point (the call goes on to its return with a Failure) and no
\* result exists before the return.
C1_OneWellFormedResult ==
    \A t \in Threads :
        /\ pc[t] \in GatewayPositions
        /\ Returned(t) =>
             /\ call[t].result \in TaggedResults(call[t].kind)
             /\ call[t].caught = "panic" =>
                  /\ call[t].result.tag = "Failure"
                  /\ call[t].result.err \in {OutOfMemory, Panic}
        /\ pc[t] # "done" => call[t].result = NoResult

\* C1 witness: a call whose interpreter step panicked has returned
\* Failure(Panic).
C1_Witness ==
    \E t \in Threads :
        /\ Returned(t)
        /\ call[t].caught = "panic"
        /\ call[t].result = Failure(call[t].kind, Panic)

\* C2: after any call whose execution step faulted, the host-visible
\* gas_used is gas_limit / 2, whether or not the restoration succeeded.
C2_PenaltyAfterEveryFault ==
    \A t \in Threads :
        (Returned(t) /\ call[t].caught = "panic")
            => used_gas[t] = call[t].gas_limit \div 2

\* C3: the interpreter is invoked only after every input region of the call
\* passed validation, and an armed call with a region that fails validation
\* returns Failure(FailedFunctionCall) without invoking the interpreter.
C3_ValidationShortCircuits ==
    \A t \in Threads :
        call[t].kind \in Kinds =>
            /\ call[t].invoked =>
                 /\ call[t].invalid \cap RegionsOf(call[t].kind) = {}
                 /\ call[t].validated = Cardinality(RegionsOf(call[t].kind))
            /\ ( /\ Returned(t)
                 /\ call[t].armed
                 /\ call[t].invalid \cap RegionsOf(call[t].kind) # {} )
                 => /\ call[t].result =
                          Failure(call[t].kind, FailedFunctionCall)
                    /\ ~call[t].invoked

\* C3 witness: ecall_handle with a bad msg region has returned
\* Failure(FailedFunctionCall) and the interpreter was not invoked.
C3_Witness ==
    \E t \in Threads :
        /\ Returned(t)
        /\ call[t].kind = "handle"
        /\ call[t].invalid = {"msg"}
        /\ call[t].result = Failure("handle", FailedFunctionCall)
        /\ ~call[t].invoked

\* C4: at every return of a call, the number of restore_safety_buffer
\* attempts equals the number of successful registers of that call (one
\* each when register_oom_handler succeeded), on every path.
C4_RestoreOncePerArmedCall ==
    \A t \in Threads :
        /\ Returned(t) =>
             call[t].restores = (IF call[t].armed THEN 1 ELSE 0)
        /\ Completed(t, "allocate") =>
             op[t].restores = (IF op[t].armed THEN 1 ELSE 0)

\* C5: a call whose restore_safety_buffer failed returns Failure with the
\* restoration error, whatever the execution step produced.
C5_RestoreFailureOverrides ==
    \A t \in Threads :
        (Returned(t) /\ call[t].restores = 1 /\ ~call[t].restoreOk)
            => call[t].result = Failure(call[t].kind, GuardError)

\* C5 witness: the interpreter produced Success, restoration failed, and
\* the call has returned a Failure.
C5_Witness ==
    \E t \in Threads :
        /\ Returned(t)
        /\ call[t].caught = "ok"
        /\ call[t].closure = Success(call[t].kind)
        /\ call[t].restores = 1
        /\ ~call[t].restoreOk
        /\ call[t].result.tag = "Failure"

\* The step is the return of ecall_<kind> on a failed register_oom_handler.
ArmFailureStep(t) ==
    /\ pc[t] = "idle"
    /\ pc'[t] = "done"
    /\ call'[t].kind \in Kinds
    /\ ~call'[t].armed

\* The step is the return of ecall_allocate on a failed register_oom_handler.
AllocateArmFailureStep(t) ==
    /\ rpc[t] = "idle"
    /\ rpc'[t] = "idle"
    /\ op'[t] # op[t]
    /\ op'[t].name = "allocate"
    /\ ~op'[t].armed

\* C6: a call whose register_oom_handler failed returns Failure with the
\* guard's out-of-memory-class error having validated no region, not invoked
\* the interpreter, not written gas_used and not called
\* restore_safety_buffer; ecall_allocate returns the null handle; in both
\* cases the step leaves the buffer registry as it was.
C6_RegisterFailureEndsCall ==
    /\ [](\A t \in Threads :
            /\ (Returned(t) /\ ~call[t].armed) =>
                 /\ call[t].result = Failure(call[t].kind, GuardError)
                 /\ call[t].validated = 0
                 /\ ~call[t].invoked
                 /\ call[t].gasWrites = 0
                 /\ used_gas[t] = call[t].gas0
                 /\ call[t].restores = 0
            /\ (Completed(t, "allocate") /\ ~op[t].armed) =>
                 /\ op[t].ret = ReturnHandle(NullPtr)
                 /\ op[t].restores = 0
                 /\ op[t].ptr = NullPtr)
    /\ [][\A t \in Threads :
            (ArmFailureStep(t) \/ AllocateArmFailureStep(t)) =>
                /\ ECALL_ALLOCATE_STACK' = ECALL_ALLOCATE_STACK
                /\ heap' = heap]_vars

\* C6 witness: with a buffer in the registry, a call has returned the
\* guard's error because register_oom_handler failed.
C6_Witness ==
    \E t \in Threads :
        /\ Returned(t)
        /\ ~call[t].armed
        /\ call[t].result = Failure(call[t].kind, OutOfMemory)
        /\ Len(ECALL_ALLOCATE_STACK) > 0

\* C7: recover_buffer(H) issued on the handle H that the preceding
\* ecall_allocate(b) returned gives Some(b), for the empty b as well, and a
\* recover_buffer(H) issued right after the one that consumed H gives None.
C7_RoundTrip ==
    \A t \in Threads :
        Completed(t, "recover") =>
            /\ op[t].after = "issue" => op[t].ret = ReturnSome(op[t].buf)
            /\ op[t].after = "recover" => op[t].ret = ReturnNone

\* C7 witness: the handle of an allocated empty byte sequence has been
\* recovered as Some(<<>>) while another buffer stays registered.
C7_Witness ==
    \E t \in Threads :
        /\ Completed(t, "recover")
        /\ op[t].after = "issue"
        /\ op[t].buf = Bytes(0)
        /\ op[t].ret = ReturnSome(Bytes(0))
        /\ Len(ECALL_ALLOCATE_STACK) > 0

\* C8: with the threads running allocate/recover cycles concurrently, the
\* recover_buffer of a handle that the thread's own ecall_allocate returned
\* gives Some of the bytes passed to that allocate, in every interleaving.
C8_EachHandleRecoveredWithItsBytes ==
    \A t \in Threads :
        (Completed(t, "recover") /\ op[t].after = "issue")
            => op[t].ret = ReturnSome(op[t].buf)

\* The step is the return (or unwinding) of thread t's recover_buffer.
RecoverReturnStep(t) ==
    /\ rpc[t] \in {"r_lock", "r_search"}
    /\ rpc'[t] = "idle"

\* C9: recover_buffer on a handle that is not in the registry returns None,
\* frees nothing and leaves the registry unchanged, and Some is returned
\* only for a handle the registry holds.
C9_AbsentHandleIsNone ==
    [][\A t \in Threads :
         RecoverReturnStep(t) =>
            /\ op[t].ptr \notin Range(ECALL_ALLOCATE_STACK) =>
                 /\ op'[t].ret = ReturnNone
                 /\ heap' = heap
                 /\ ECALL_ALLOCATE_STACK' = ECALL_ALLOCATE_STACK
            /\ op'[t].ret.tag = "Some" =>
                 op[t].ptr \in Range(ECALL_ALLOCATE_STACK)]_vars

C11_UsableAfterContainedFailure ==
    /\ [](\A t \in Threads :
            Completed(t, "recover") => op[t].ret.tag \in {"None", "Some"})
    /\ [][\A t \in Threads :
            (rpc[t] = "a_lock" /\ rpc'[t] # "a_lock") => rpc'[t] = "a_push"]_vars

\* C12: on a call that reached the execution step, the gas_used the host
\* sees at the return is at least the gas_used it supplied at the start, on
\* the normal, the interpreter-error and the faulted path.
C12_GasNeverDecreases ==
    \A t \in Threads :
        (Returned(t) /\ call[t].invoked) => used_gas[t] >= call[t].gas0

\* The step is a whole ecall_health_check call of thread t.
HealthCheckStep(t) ==
    /\ pc[t] = "idle"
    /\ pc'[t] = "done"
    /\ call'[t].kind = "health_check"

\* C13: ecall_health_check returns Success whatever happened before and has
\* no side effect: the guard is neither registered nor restored, the OOM
\* flag is neither read nor cleared, no gas counter is written and the
\* buffer registry, its lock and the buffers stay as they were.
C13_HealthCheckIsPure ==
    [][\A t \in Threads :
         HealthCheckStep(t) =>
            /\ call'[t].result = Success("health_check")
            /\ ~call'[t].armed
            /\ call'[t].restores = 0
            /\ call'[t].flagRead = "none"
            /\ call'[t].gasWrites = 0
            /\ oom_happened' = oom_happened
            /\ used_gas' = used_gas
            /\ ECALL_ALLOCATE_STACK' = ECALL_ALLOCATE_STACK
            /\ heap' = heap
            /\ lockHolder' = lockHolder
            /\ poisoned' = poisoned]_vars

\* C13 witness: ecall_health_check has returned Success while a buffer is
\* registered and the OOM flag is still set from an earlier call.
C13_Witness ==
    \E t \in Threads :
        /\ pc[t] = "done"
        /\ call[t].kind = "health_check"
        /\ call[t].result = Success("health_check")
        /\ Len(ECALL_ALLOCATE_STACK) > 0
        /\ oom_happened

\* Thread t is at the return of a call whose interpreter step completed
\* and whose restoration succeeded.
ReturnedNormally(t) ==
    Returned(t) /\ call[t].caught = "ok" /\ call[t].restoreOk

\* C14: when the interpreter completes and restoration succeeds, the call
\* returns the interpreter's outcome converted (Success, or Failure with the
\* interpreter's own error), gas_used is the value the interpreter left,
\* written once, the penalty is not applied, and the OOM flag is neither
\* read nor changed.
C14_NormalPathPassesThrough ==
    /\ [](\A t \in Threads :
            ReturnedNormally(t) =>
               /\ call[t].result = call[t].closure
               /\ call[t].result \in
                      {ResultToTagged(call[t].kind, r) : r \in InterpreterResults}
               /\ used_gas[t] = call[t].local_used_gas
               /\ call[t].gasWrites = 1
               /\ call[t].flagRead = "none")
    /\ [][\A t \in Threads :
            (pc[t] = "emit" /\ call[t].caught = "ok" /\ pc'[t] = "done")
                => oom_happened' = oom_happened]_vars

\* C14 witness: with the OOM flag left set by an earlier call, a call whose
\* interpreter returned an error has returned Failure with that error and
\* the gas the interpreter counted, which differs from the penalty.
C14_Witness ==
    \E t \in Threads :
        /\ ReturnedNormally(t)
        /\ call[t].result = Failure(call[t].kind, "ContractError")
        /\ used_gas[t] = MaxGas
        /\ used_gas[t] # call[t].gas_limit \div 2
        /\ oom_happened

\* Thread t is at the return of a call that a region validation ended.
ReturnedInvalid(t) ==
    /\ Returned(t)
    /\ call[t].armed
    /\ ~call[t].invoked
    /\ call[t].result = Failure(call[t].kind, FailedFunctionCall)

\* C15: a call that ends in a validation failure charges no gas: gas_used
\* at the return is the value the host supplied and was never written, and
\* the step that ends the call leaves the buffer registry unchanged.
C15_ValidationFailureChargesNothing ==
    /\ [](\A t \in Threads :
            ReturnedInvalid(t) =>
               /\ used_gas[t] = call[t].gas0
               /\ call[t].gasWrites = 0)
    /\ [][\A t \in Threads :
            (pc[t] = "validate" /\ pc'[t] = "done") =>
               /\ used_gas' = used_gas
               /\ ECALL_ALLOCATE_STACK' = ECALL_ALLOCATE_STACK
               /\ heap' = heap]_vars

\* C15 witness: with a buffer registered, ecall_query with a bad msg region
\* has returned Failure(FailedFunctionCall) with gas_used as supplied.
C15_Witness ==
    \E t \in Threads :
        /\ ReturnedInvalid(t)
        /\ call[t].kind = "query"
        /\ call[t].invalid = {"msg"}
        /\ used_gas[t] = call[t].gas0
        /\ Len(ECALL_ALLOCATE_STACK) > 0

\* No ecall_allocate or recover_buffer call is in progress.
RegistryQuiet == \A t \in Threads : rpc[t] = "idle"

\* C16: between calls the registry holds exactly the handles that
\* ecall_allocate returned to a caller and that were not recovered since,
\* each once; in particular no handle of a call that returned the default
\* handle.
C16_RegistryIsOutstandingHandles ==
    RegistryQuiet =>
        /\ Range(ECALL_ALLOCATE_STACK) = outstanding
        /\ Cardinality(Range(ECALL_ALLOCATE_STACK)) = Len(ECALL_ALLOCATE_STACK)

\* The step is the search of recover_buffer finding its handle.
RecoverFoundStep(t) ==
    /\ rpc[t] = "r_search"
    /\ rpc'[t] = "idle"
    /\ op[t].ptr \in Range(ECALL_ALLOCATE_STACK)

\* C17: recover_buffer on a registered handle removes that entry and no
\* other, wherever it sits: the registry is one shorter, the other handles
\* are the same set, and their buffers are untouched, so each can still be
\* recovered with its own bytes.
C17_RemovesExactlyOne ==
    [][\A t \in Threads :
         RecoverFoundStep(t) =>
            /\ Len(ECALL_ALLOCATE_STACK') = Len(ECALL_ALLOCATE_STACK) - 1
            /\ Range(ECALL_ALLOCATE_STACK') =
                   Range(ECALL_ALLOCATE_STACK) \ {op[t].ptr}
            /\ \A a \in Range(ECALL_ALLOCATE_STACK') :
                   heap'[a] = heap[a] /\ heap[a].live
            /\ op'[t].ret = ReturnSome(heap[op[t].ptr].bytes)]_vars

\* C17 witness: recover_buffer has removed the middle one of three
\* registered handles, and the two others are registered with their buffers.
C17_Witness ==
    \E t \in Threads :
        /\ Completed(t, "recover")
        /\ op[t].ret.tag = "Some"
        /\ op[t].index = 1
        /\ Len(ECALL_ALLOCATE_STACK) = 2
        /\ \A a \in Range(ECALL_ALLOCATE_STACK) : heap[a].live

\* ----------------------------------------------------- registry lock
\* The address thread t's allocator hands out: one arena per thread.
Arena(t) == ((t - 1) % MaxAddr) + 1

\* Steps of ecall_allocate and recover_buffer with per-thread arenas.
LockRun(t) ==
    \/ AllocateValidate(t)
    \/ AllocateCopy(t, Arena(t))
    \/ AllocateCopyFails(t)
    \/ AllocateLock(t)
    \/ AllocatePush(t)
    \/ AllocatePushFails(t)
    \/ AllocateRestore(t)
    \/ AllocateResult(t)
    \/ RecoverNull(t)
    \/ RecoverLock(t)
    \/ RecoverSearch(t)

\* Thread 1 runs ecall_query calls whose contract makes ocalls that allocate
\* and recover; the other threads call ecall_allocate / recover_buffer
\* directly; all share the registry.
NextLock ==
    \/ Arm(1, "query", MaxGas, 0, {})
    \/ GatewayRun(1)
    \/ \E t \in Threads :
         /\ t = 1 => pc[t] = "running"
         /\ \/ AllocateArm(t, ThreadBytes(t), TRUE)
            \/ (op[t].name = "allocate" /\ RecoverBegin(t, op[t].ret.ptr))
    \/ \E t \in Threads : LockRun(t)

\* Every thread keeps running, and SgxMutex hands the lock to a waiting
\* thread at some release: no thread is passed over forever.
LockFairness ==
    \A t \in Threads :
        /\ WF_vars(LockRun(t))
        /\ SF_vars(AllocateLock(t))
        /\ SF_vars(RecoverLock(t))

SpecLock == Init /\ [][NextLock]_vars /\ LockFairness

\* Thread t waits for or is about to take the registry lock.
AtLock(t) == rpc[t] \in {"a_lock", "r_lock"}

\* C18: the registry lock is held only while a thread is at the insert of
\* ecall_allocate or in the lookup-and-remove of recover_buffer; the holder's
\* next step releases it, so it is never held across an interpreter
\* invocation or a call boundary; and every thread that reaches the lock,
\* from a nested call or from another thread, gets past it.
C18_LockHeldOnlyForOneOperation ==
    /\ [](\A t \in Threads :
            lockHolder = t => rpc[t] \in {"a_push", "r_search"})
    /\ [][\A t \in Threads :
            (lockHolder = t /\ <<pc[t], rpc[t]>>' # <<pc[t], rpc[t]>>)
                => lockHolder' = 0]_vars
    /\ \A t \in Threads : AtLock(t) ~> ~AtLock(t)

\* C18 witness: another thread holds the lock for its insert while the
\* recover_buffer nested in thread 1's running ecall_query is at the lock.
C18_Witness ==
    /\ pc[1] = "running"
    /\ rpc[1] = "r_lock"
    /\ \E t \in Threads \ {1} : lockHolder = t /\ rpc[t] = "a_push"

\* C19: whenever ecall_allocate has returned the default handle, the box
\* of that call, if one was made, is not in the registry: no entry stays
\* registered for which the caller received no handle.
C19_DefaultHandleLeavesNoEntry ==
    \A t \in Threads :
        (Completed(t, "allocate") /\ op[t].ret = ReturnHandle(NullPtr))
            => op[t].ptr \notin Range(ECALL_ALLOCATE_STACK)

\* ------------------------------------------------------------- OOM flag
\* The host calls ecall_query from every thread, the calls overlapping.
NextFlag ==
    \E t \in Threads :
        \/ Arm(t, "query", MaxGas, 0, {})
        \/ GatewayRun(t)

SpecFlag == Init /\ [][NextFlag]_vars

\* C20: a call whose fault path has run reports Failure(OutOfMemory) exactly
\* when an allocation failure happened in that call's own execution step,
\* in every interleaving of the calls.
C20_FlagBelongsToTheCall ==
    \A t \in Threads :
        (Returned(t) /\ call[t].caught = "panic" /\ call[t].restoreOk)
            => (call[t].result = Failure(call[t].kind, OutOfMemory)
                    <=> call[t].exhausted)

====
